---- MODULE Spec2Model ----
(***************************************************************************)
(* A model of scripts/paperbanana_lite.py: the retrieval selector          *)
(* (retrieve), the critic (critique) and the run orchestrator (generate).  *)
(* The generative model service is the environment: every answer it can    *)
(* give is drawn from a small set at the step that asks for it.            *)
(***************************************************************************)
EXTENDS Integers, Sequences, FiniteSets, TLC

VARIABLES
    pc,                   \* position of the flow of control
    mode,                 \* "diagram" or "plot"
    iterations,           \* the iteration cap K passed to generate()
    candidates,           \* the reference pool
    num_examples,         \* the cap passed to retrieve()
    retResp,              \* the retriever's model response (last one received)
    examples,             \* what retrieve() returned
    vlmCalls,             \* number of call_vlm invocations issued by retrieve()
    description,          \* generate(): description (planner, then stylist output)
    current_description,  \* generate(): current_description
    final_image_path,     \* generate(): final_image_path (0 stands for None)
    it,                   \* number of loop iterations started (i + 1 in the code)
    image_path,           \* generate(): image_path of the current iteration
    critResp,             \* the critic's model response (last one received)
    crit,                 \* what critique() returned
    nVisualize,           \* number of visualize() calls made by generate()
    nCritique,            \* number of critique() calls made by generate()
    failedAt,             \* the stage whose exception ended the run ("" if none)
    planning,             \* planning.json: << >> or << record >>
    iter_png,             \* iter_n.png, n = 1..Len(iter_png)
    iter_details,         \* iter_n_details.json, n = 1..Len(iter_details)
    final_output,         \* final_output.png: << >> or << artifact >>
    input_exists,         \* main(): the required input file exists
    api_key,              \* _get_client(): an API key is set in the environment
    exit_code,            \* the status main() passed to sys.exit (-1: none)
    run_dir,              \* generate(): the run directory has been created
    index,                \* load_references(): what was found at the index
    modelCalls,           \* number of call_vlm / generate_image invocations of the run
    calls,                \* the stages generate() has called, in order
    plan_call,            \* what plan() was called with and put in its prompt
    style_in,             \* the description style() was called with
    visOut,               \* what the last visualize() call did
    gw,                   \* one invocation of call_vlm or generate_image
    clock,                \* the wall clock, in seconds
    runs,                 \* runs of generate() started side by side
    crit_call,            \* what critique() was last called with
    xc,                   \* one call of _extract_code
    nRequests,            \* requests sent to the model service so far
    plan_sent             \* one call of plan(): its examples, prompt and images

vars == << pc, mode, iterations, candidates, num_examples, retResp, examples,
           vlmCalls, description, current_description, final_image_path, it,
           image_path, critResp, crit, nVisualize, nCritique, failedAt,
           planning, iter_png, iter_details, final_output,
           input_exists, api_key, exit_code, run_dir, index, modelCalls, calls,
           plan_call, style_in, visOut, gw, clock, runs, crit_call, xc,
           nRequests, plan_sent >>

(***************************************************************************)
(* Bounds of the model and constants of the program                        *)
(***************************************************************************)
MaxPool == 3
MaxSel == 2
MaxK == 3
Extra == 1
MaxClock == 2
MaxSuffix == 2
MaxResp == 6
MaxPlotK == 2
MaxRefs == 3
NumRuns == 2
NUM_RETRIEVAL_EXAMPLES == 10

Min(a, b) == IF a <= b THEN a ELSE b
Max(a, b) == IF a >= b THEN a ELSE b

\* Python values: None, and the strings a description can be.
NoneV == "<None>"
Texts == {"t1", "t2"}
Truthy(x) == x # NoneV /\ x # ""

\* Ids a reference example can have, and an id that no pool element has.
PoolIds == 1 .. MaxPool
FabricatedId == CHOOSE n \in 0 .. MaxPool : n \notin PoolIds

RECURSIVE SeqsUpTo(_, _)
SeqsUpTo(S, n) ==
    IF n = 0 THEN {<< >>}
    ELSE LET shorter == SeqsUpTo(S, n - 1)
         IN  shorter \cup {Append(s, x) : s \in {t \in shorter : Len(t) = n - 1}, x \in S}

\* An example record: its id and the rest of its content (source_context,
\* caption, image_path), which is told apart by the entry's place in the index.
MkPool(ids) == [k \in 1 .. Len(ids) |-> [id |-> ids[k], source_context |-> k]]

(***************************************************************************)
(* The model service's answers                                             *)
(***************************************************************************)
\* The value of a key of a JSON object: the key is absent, or holds a list.
Absent == [present |-> FALSE, ids |-> << >>]
Holds(l) == [present |-> TRUE, ids |-> l]

\* dict.get(key): None when the key is absent; a list is falsy when empty.
GetTruthy(v) == v.present /\ Len(v.ids) > 0

NamedIds == FabricatedId .. MaxSel
IdLists == SeqsUpTo(NamedIds, MaxSel)

\* What call_vlm gives retrieve(): the call raises after its retries, or it
\* returns text that is no JSON, JSON that is no object, or a JSON object.
NoObject(k) ==
    [kind |-> k, selected_ids |-> Absent, top_10_papers |-> Absent, top_10_plots |-> Absent]
RetrieverResponses ==
    {NoObject("raise"), NoObject("unparsable"), NoObject("nonobject")}
    \cup [kind : {"object"},
          selected_ids : {Absent} \cup {Holds(l) : l \in IdLists},
          top_10_papers : {Absent, Holds(<< 1 >>)},
          top_10_plots : {Absent, Holds(<< 2, FabricatedId >>)}]

(***************************************************************************)
(* retrieve()                                                              *)
(***************************************************************************)
\* candidates[:n] for n >= 0
Prefix(s, n) == SubSeq(s, 1, Min(n, Len(s)))

\* id_to_example = {c["id"]: c for c in candidates}: a later entry with the
\* same id replaces an earlier one.
IdToExampleKeys(cands) == {cands[k].id : k \in 1 .. Len(cands)}
IdToExample(cands, eid) ==
    LET last == CHOOSE k \in 1 .. Len(cands) :
                    /\ cands[k].id = eid
                    /\ \A j \in 1 .. Len(cands) : cands[j].id = eid => j <= k
    IN  cands[last]

\* data.get("selected_ids") or data.get("top_10_papers")
\*     or data.get("top_10_plots") or []
SelectedIds(resp) ==
    IF GetTruthy(resp.selected_ids) THEN resp.selected_ids.ids
    ELSE IF GetTruthy(resp.top_10_papers) THEN resp.top_10_papers.ids
    ELSE IF GetTruthy(resp.top_10_plots) THEN resp.top_10_plots.ids
    ELSE << >>

\* A selection that walks the pool instead of the named ids.
SelectedInPoolOrder(cands, ids) ==
    LET named(c) == \E j \in 1 .. Len(ids) : ids[j] = c.id
    IN  SelectSeq(cands, named)

\* for eid in selected_ids: if eid in id_to_example: selected.append(...)
RECURSIVE Selected(_, _)
Selected(cands, ids) ==
    IF ids = << >> THEN << >>
    ELSE IF Head(ids) \in IdToExampleKeys(cands)
         THEN << IdToExample(cands, Head(ids)) >> \o Selected(cands, Tail(ids))
         ELSE Selected(cands, Tail(ids))

Returned(v, n) == [raised |-> FALSE, value |-> v, calls |-> n]
Raised(n) == [raised |-> TRUE, value |-> << >>, calls |-> n]

\* A parse whose result is not cut to the cap.
ParseRetrievedUncut(cands, num, resp) ==
    CASE resp.kind = "unparsable" -> Returned(Prefix(cands, num), 1)
      [] resp.kind = "nonobject"  -> Raised(1)
      [] resp.kind = "object"     -> Returned(Selected(cands, SelectedIds(resp)), 1)

\* A parse without the except clause: unparsable text raises.
ParseRetrievedNoExcept(cands, num, resp) ==
    CASE resp.kind = "unparsable" -> Raised(1)
      [] resp.kind = "nonobject"  -> Raised(1)
      [] resp.kind = "object"     ->
            Returned(Prefix(Selected(cands, SelectedIds(resp)), num), 1)

\* The parse of the retriever's response and what follows it.
ParseRetrieved(cands, num, resp) ==
    CASE resp.kind = "unparsable" -> Returned(Prefix(cands, num), 1)
      [] resp.kind = "nonobject"  -> Raised(1)
      [] resp.kind = "object"     ->
            Returned(Prefix(Selected(cands, SelectedIds(resp)), num), 1)

\* A retrieve() that cuts the pool itself down to the cap.
PoolAfterTruncating(cands, num, resp) ==
    IF Len(cands) > num THEN Prefix(cands, num) ELSE cands

\* The list candidates after retrieve(): the function reads it (enumerate,
\* c["id"], the slice candidates[:num_examples], which is a new list) and
\* assigns nothing to it.
PoolAfterRetrieve(cands, num, resp) == cands

\* A retrieve() that passes the pool through only when it is smaller than the cap.
RetrieveStrict(cands, num, resp) ==
    IF Len(cands) = 0 THEN Returned(<< >>, 0)
    ELSE IF Len(cands) < num THEN Returned(cands, 0)
    ELSE IF resp.kind = "raise" THEN Raised(1)
    ELSE ParseRetrieved(cands, num, resp)

\* retrieve(source_context, caption, candidates, num_examples): resp is what
\* call_vlm does if it is called.
Retrieve(cands, num, resp) ==
    IF Len(cands) = 0 THEN Returned(<< >>, 0)
    ELSE IF Len(cands) <= num THEN Returned(cands, 0)
    ELSE IF resp.kind = "raise" THEN Raised(1)
    ELSE ParseRetrieved(cands, num, resp)

(***************************************************************************)
(* critique()                                                              *)
(***************************************************************************)
\* The value of a key of the critic's JSON object.
KeyAbsent == [tag |-> "absent", items |-> << >>, text |-> ""]
KeyNull == [tag |-> "null", items |-> << >>, text |-> ""]
KeyList(l) == [tag |-> "list", items |-> l, text |-> ""]
KeyStr(t) == [tag |-> "str", items |-> << >>, text |-> t]

SuggestionValues == {KeyAbsent, KeyNull, KeyList(<< >>), KeyList(<< "s1" >>)}
RevisedValues == {KeyAbsent, KeyNull, KeyStr("")} \cup {KeyStr(t) : t \in Texts}

NoCriticObject(k) == [kind |-> k, critic_suggestions |-> KeyAbsent, revised_description |-> KeyAbsent]
CriticResponses ==
    {NoCriticObject("raise"), NoCriticObject("unparsable"), NoCriticObject("nonobject")}
    \cup [kind : {"object"}, critic_suggestions : SuggestionValues,
          revised_description : RevisedValues]

CritResult(s, r) == [raised |-> FALSE, critic_suggestions |-> s, revised_description |-> r]
CritRaised == [raised |-> TRUE, critic_suggestions |-> << >>, revised_description |-> NoneV]

\* data.get("revised_description"): None when absent or null
GetRevised(v) == IF v.tag = "str" THEN v.text ELSE NoneV

\* A reading of the key that takes its absence for an open issue.
GetSuggestionsAssumed(v) == IF v.tag = "absent" THEN << "unspecified" >> ELSE v.items

\* data.get("critic_suggestions", []): [] when the key is absent
GetSuggestions(v) == IF v.tag = "absent" THEN << >> ELSE v.items

\* A parse without the except clause: unparsable text raises.
ParseCritiqueNoExcept(resp) ==
    CASE resp.kind = "unparsable" -> CritRaised
      [] resp.kind = "nonobject"  -> CritRaised
      [] resp.kind = "object"     ->
            IF resp.critic_suggestions.tag = "null" THEN CritRaised
            ELSE CritResult(GetSuggestions(resp.critic_suggestions),
                            GetRevised(resp.revised_description))

\* The parse of the critic's response: json.loads, the two data.get calls,
\* the except clause and len(result["critic_suggestions"]).
ParseCritique(resp) ==
    CASE resp.kind = "unparsable" -> CritResult(<< >>, NoneV)
      [] resp.kind = "nonobject"  -> CritRaised
      [] resp.kind = "object"     ->
            IF resp.critic_suggestions.tag = "null" THEN CritRaised
            ELSE CritResult(GetSuggestions(resp.critic_suggestions),
                            GetRevised(resp.revised_description))

\* critique(image_path, description, ...): resp is what call_vlm does.
Critique(resp) ==
    IF resp.kind = "raise" THEN CritRaised ELSE ParseCritique(resp)

(***************************************************************************)
(* generate(): the decision at the end of an iteration                     *)
(***************************************************************************)
NeedsRevision(c) == Len(c.critic_suggestions) > 0

\* A decision that looks at the revised description alone.
RevisesWithoutSuggestions(c) == Truthy(c.revised_description)

\* if needs_revision and crit["revised_description"]: ... else: break
Revises(c) == NeedsRevision(c) /\ Truthy(c.revised_description)

\* A loop that runs one iteration too many.
LoopContinuesOffByOne(started, cap) == started <= cap

\* for i in range(iterations): another iteration starts
LoopContinues(started, cap) == started < cap

(***************************************************************************)
(* The inputs of generate()                                                *)
(***************************************************************************)
Modes == {"diagram", "plot"}
Caps == -1 .. MaxK

\* Reference pools of a run: none, and pools around the retrieval cap.
GenPoolSizes == {0} \cup {NUM_RETRIEVAL_EXAMPLES - 1 + k : k \in 1 .. Extra + 1}
GenPools == {MkPool([k \in 1 .. n |-> k]) : n \in GenPoolSizes}

GenRetrieverResponses ==
    {NoObject("raise"), NoObject("unparsable"), NoObject("nonobject")}
    \cup [kind : {"object"},
          selected_ids : {Absent, Holds(<< 2, FabricatedId, 1 >>)},
          top_10_papers : {Absent},
          top_10_plots : {Absent}]

(***************************************************************************)
(* load_references(), plan() and visualize()                               *)
(***************************************************************************)
\* What generate() finds where the reference index should be: no reference
\* directory at all, a directory without index.json, an index, or an index
\* that json.load or item["id"] rejects.
IndexStates == {"nodir", "missing", "present", "malformed"}

\* A load_references() that takes a missing index for an error.
load_references_strict(found, pool) ==
    IF found = "present" THEN Returned(pool, 0) ELSE Raised(0)

\* candidates = [] unless a reference directory exists; load_references():
\* the warning and [] when index.json is missing.
load_references(found, pool) ==
    CASE found \in {"nodir", "missing"} -> Returned(<< >>, 0)
      [] found = "malformed"            -> Raised(0)
      [] found = "present"              -> Returned(pool, 0)

\* A plan() that has no prompt for an empty list of examples.
PlanNeedsExamples(exs, answer) ==
    IF Len(exs) = 0 \/ answer = "raise"
    THEN [raised |-> TRUE, value |-> NoneV, zero_shot |-> FALSE]
    ELSE [raised |-> FALSE, value |-> answer, zero_shot |-> FALSE]

\* plan(source_context, caption, examples): the zero-shot text stands for
\* the examples when there are none; the description is what call_vlm
\* returns. answer is what call_vlm does.
Plan(exs, answer) ==
    IF answer = "raise"
    THEN [raised |-> TRUE, value |-> NoneV, zero_shot |-> Len(exs) = 0]
    ELSE [raised |-> FALSE, value |-> answer, zero_shot |-> Len(exs) = 0]

NoPlanCall == [examples |-> << >>, zero_shot |-> FALSE, answer |-> "none", called |-> FALSE]

\* The size of the placeholder image, and the size of an image whose
\* producer (the image service, the generated program) chose it.
PlaceholderSize == << 1024, 768 >>
ProducerSize == << 0, 0 >>

\* What the environment does during one visualize() call. image: what
\* generate_image ends with; code: what call_vlm gives _generate_plot and
\* whether _extract_code finds its fences; run: how the child process ends
\* and whether it created the output file.
ImageResults == {"image", "no_payload", "raise"}
PlotCodeResponses == {"code", "unclosed_fence", "raise"}
PlotRuns == [returncode : {"zero", "nonzero", "timeout"}, wrote : BOOLEAN]
NoRun == [returncode : {"zero"}, wrote : {FALSE}]

VisualizeOutcomes(m) ==
    IF m = "plot"
    THEN [image : {"none"}, code : {"code"}, run : PlotRuns]
         \cup [image : {"none"}, code : {"unclosed_fence", "raise"}, run : NoRun]
    ELSE [image : ImageResults, code : {"none"}, run : NoRun]

\* What one visualize() call did: raised or returned; the kind and size of
\* the file at output_path; how often that file was written; the requests
\* it issued (the image service, the code-generating model call, the child
\* process); blocked when the call never comes back.
VisRaised(why, req) ==
    [raised |-> TRUE, blocked |-> FALSE, kind |-> "none", size |-> ProducerSize,
     cause |-> why, writes |-> 0, requests |-> req]
VisWrote(k, sz, why, w, req) ==
    [raised |-> FALSE, blocked |-> FALSE, kind |-> k, size |-> sz, cause |-> why,
     writes |-> w, requests |-> req]
VisBlocked(req) ==
    [raised |-> FALSE, blocked |-> TRUE, kind |-> "none", size |-> ProducerSize,
     cause |-> "blocked", writes |-> 0, requests |-> req]

DiagramRequests == {"generate_image"}
PlotRequests == {"call_vlm", "child"}

\* A _generate_diagram() that puts a placeholder where no image came.
GenerateDiagramWithPlaceholder(env) ==
    CASE env.image = "image"      -> VisWrote("image", ProducerSize, "", 1, DiagramRequests)
      [] env.image = "no_payload" ->
            VisWrote("placeholder", PlaceholderSize, "no_payload", 1, DiagramRequests)
      [] env.image = "raise"      -> VisRaised("generate_image", DiagramRequests)

\* _generate_diagram(): generate_image raises (after its retries) when the
\* service fails or answers without an image; else the image is saved.
GenerateDiagram(env) ==
    CASE env.image = "image"      -> VisWrote("image", ProducerSize, "", 1, DiagramRequests)
      [] env.image = "no_payload" -> VisRaised("no_payload", DiagramRequests)
      [] env.image = "raise"      -> VisRaised("generate_image", DiagramRequests)

\* A subprocess.run without timeout: it waits for the child for ever.
SubprocessRunNoTimeout(run) ==
    IF run.returncode = "timeout" THEN "blocked" ELSE "completed"

\* subprocess.run(..., timeout=60): the child is killed when the time is up
\* and TimeoutExpired is raised; else the CompletedProcess is returned.
SubprocessRun(run) ==
    IF run.returncode = "timeout" THEN "expired" ELSE "completed"

\* An _execute_plot_code() that trusts the exit status alone.
ExecutePlotCodeByStatus(run) == run.returncode = "zero"

\* _execute_plot_code(): False on a non-zero exit and on a timeout, else
\* whether the output file exists.
ExecutePlotCode(run) ==
    SubprocessRun(run) = "completed" /\ run.returncode = "zero" /\ run.wrote

WhyFailed(run) ==
    CASE run.returncode = "nonzero" -> "nonzero"
      [] run.returncode = "timeout" -> "timeout"
      [] OTHER                      -> "no_file"

\* How often the file at output_path is written in one _generate_plot():
\* by the child, and by placeholder.save when the execution did not succeed.
PlotWrites(run, success) ==
    (IF run.wrote THEN 1 ELSE 0) + (IF success THEN 0 ELSE 1)

\* A _generate_plot() that asks the image service when the code failed.
GeneratePlotWithImageFallback(env) ==
    CASE env.code = "raise"          -> VisRaised("call_vlm", {"call_vlm"})
      [] env.code = "unclosed_fence" -> VisRaised("extract_code", {"call_vlm"})
      [] env.code = "code"           ->
            IF ExecutePlotCode(env.run)
            THEN VisWrote("plot", ProducerSize, "", 1, PlotRequests)
            ELSE VisWrote("image", ProducerSize, WhyFailed(env.run), 1,
                          PlotRequests \cup DiagramRequests)

\* _generate_plot(): call_vlm, _extract_code, _execute_plot_code, and the
\* placeholder when the execution did not succeed. Without the placeholder
\* the file at output_path is what the child left there, if anything.
GeneratePlot(env) ==
    CASE env.code = "raise"          -> VisRaised("call_vlm", {"call_vlm"})
      [] env.code = "unclosed_fence" -> VisRaised("extract_code", {"call_vlm"})
      [] env.code = "code"           ->
            IF SubprocessRun(env.run) = "blocked"
            THEN VisBlocked(PlotRequests)
            ELSE IF ExecutePlotCode(env.run)
            THEN VisWrote(IF env.run.wrote THEN "plot" ELSE "none", ProducerSize, "",
                          PlotWrites(env.run, TRUE), PlotRequests)
            ELSE VisWrote("placeholder", PlaceholderSize, WhyFailed(env.run),
                          PlotWrites(env.run, FALSE), PlotRequests)

\* An _execute_plot_code() whose unlink follows the try statement instead
\* of being its finally clause: the return statements inside try leave
\* before it, and only the timeout path reaches it.
TempFileAfterNoFinally(run) ==
    IF SubprocessRun(run) = "expired" THEN "removed" ELSE "exists"

\* The temporary script of _execute_plot_code(): NamedTemporaryFile(delete =
\* False) creates it before the try statement; the three return statements
\* and the except clause all leave through finally, which unlinks it. A
\* call that never comes back never reaches finally.
TempFileAfter(run) ==
    LET created == "exists"
        returns == SubprocessRun(run) \in {"completed", "expired"}
    IN  IF returns THEN "removed" ELSE created

\* The temporary script after _generate_plot(): none was created when
\* call_vlm or _extract_code raised before _execute_plot_code was called.
PlotTempFile(env) ==
    IF env.code = "code" THEN TempFileAfter(env.run) ELSE "none"

\* visualize(description, mode, ...)
Visualize(m, env) ==
    IF m = "plot" THEN GeneratePlot(env) ELSE GenerateDiagram(env)

NoEnv == [image |-> "none", code |-> "none", run |-> [returncode |-> "zero", wrote |-> FALSE]]
NoVisOut ==
    [result |-> "none", cause |-> "", env |-> NoEnv, writes |-> 0, requests |-> {},
     temp |-> "none"]

\* A critique() that is given the description of the planning phase.
CritiqueArgsInitial(path, cur, initial) ==
    [called |-> TRUE, image_path |-> path, description |-> initial]

\* crit = critique(image_path, current_description, source_context, caption)
CritiqueArgs(path, cur, initial) ==
    [called |-> TRUE, image_path |-> path, description |-> cur]

NoCritCall == [called |-> FALSE, image_path |-> 0, description |-> NoneV]

NoRetResp == NoObject("none")
NoCritResp == NoCriticObject("none")
NoCrit == [critic_suggestions |-> << >>, revised_description |-> NoneV]

(***************************************************************************)
(* _extract_code()                                                         *)
(***************************************************************************)
\* A model response as a sequence of pieces: the marker of three backticks
\* followed by "python", a marker of three backticks that no "python"
\* follows, white space, and two pieces of other text.
FencePython == "fence_python"
FenceBare == "fence"
Fences == {FencePython, FenceBare}
White == " "
Pieces == {FencePython, FenceBare, White, "a", "b"}

\* response.index(marker, start): the first place after start that holds one
\* of the markers, 0 when there is none (where index raises ValueError).
\* Every marker begins with the three backticks, so a search for them
\* finds both.
RECURSIVE IndexOf(_, _, _)
IndexOf(resp, markers, start) ==
    IF start >= Len(resp) THEN 0
    ELSE IF resp[start + 1] \in markers THEN start + 1
    ELSE IndexOf(resp, markers, start + 1)

\* str.strip()
RECURSIVE LStrip(_)
LStrip(t) == IF t # << >> /\ Head(t) = White THEN LStrip(Tail(t)) ELSE t
RECURSIVE RStrip(_)
RStrip(t) ==
    IF t # << >> /\ t[Len(t)] = White THEN RStrip(SubSeq(t, 1, Len(t) - 1)) ELSE t
Strip(t) == RStrip(LStrip(t))

CodeReturned(c) == [raised |-> FALSE, code |-> c]
CodeRaised == [raised |-> TRUE, code |-> << >>]

\* response[start:end].strip() with end = response.index(fence, start)
FencedBlock(resp, open) ==
    LET end == IndexOf(resp, Fences, open)
    IN  IF end = 0 THEN CodeRaised
        ELSE CodeReturned(Strip(SubSeq(resp, open + 1, end - 1)))

\* An _extract_code() that takes the first fenced block, whatever opens it.
ExtractCodeFirstFence(resp) ==
    IF IndexOf(resp, Fences, 0) # 0
    THEN FencedBlock(resp, IndexOf(resp, Fences, 0))
    ELSE CodeReturned(Strip(resp))

\* _extract_code(response)
ExtractCode(resp) ==
    IF IndexOf(resp, {FencePython}, 0) # 0
    THEN FencedBlock(resp, IndexOf(resp, {FencePython}, 0))
    ELSE IF IndexOf(resp, Fences, 0) # 0
    THEN FencedBlock(resp, IndexOf(resp, Fences, 0))
    ELSE CodeReturned(Strip(resp))

NoExtract == [response |-> << >>, state |-> "idle", code |-> << >>]

(***************************************************************************)
(* call_vlm and generate_image: the retry of one invocation                *)
(***************************************************************************)
VLM_ATTEMPTS == 8
IMAGE_ATTEMPTS == 3

\* stop_after_attempt(n) of the decorator of each function
\* A generate_image decorated like call_vlm.
StopAfterUniform(kind) == VLM_ATTEMPTS

StopAfter(kind) == IF kind = "image" THEN IMAGE_ATTEMPTS ELSE VLM_ATTEMPTS

\* What one attempt can end with: the value, or an exception.
AttemptOutcomes(kind) ==
    IF kind = "image" THEN {"image", "network", "no_payload"}
    ELSE {"text", "network", "rate_limit"}
Succeeds(o) == o \in {"image", "text"}

\* A decorator that returns None after the last failed attempt.
AfterAttemptSwallowing(kind, n, o) ==
    IF o = "no_api_key" THEN "exited"
    ELSE IF Succeeds(o) \/ n >= StopAfter(kind) THEN "returned"
    ELSE "calling"

\* @retry: the value of an attempt is returned at once; an exception is
\* retried until stop_after_attempt says stop, and then raised; sys.exit in
\* _get_client is no Exception and leaves at once.
AfterAttempt(kind, n, o) ==
    IF o = "no_api_key" THEN "exited"
    ELSE IF Succeeds(o) THEN "returned"
    ELSE IF n >= StopAfter(kind) THEN "raised"
    ELSE "calling"

GwIdle == [kind |-> "none", state |-> "idle", attempts |-> 0, log |-> << >>]

\* The run directories of runs that are not modelled
NoRuns == << >>

\* A plan() that has not been called
NoPlanSent == [examples |-> << >>, state |-> "idle", refs |-> << >>, images |-> << >>]

(***************************************************************************)
(* main() and generate(): one action per step                              *)
(***************************************************************************)
retrieveVars == << candidates, num_examples, retResp, examples, vlmCalls >>
loopVars == << current_description, final_image_path, it, image_path, critResp, crit >>
countVars == << nVisualize, nCritique >>
fileVars == << planning, iter_png, iter_details, final_output >>
mainVars == << input_exists, api_key, exit_code >>
stageVars == << plan_call, style_in, crit_call >>
otherVars == << gw, clock, runs, xc, nRequests, plan_sent >>

\* The state of a generate() that has not been entered.
GenerateIdle ==
    /\ num_examples = NUM_RETRIEVAL_EXAMPLES
    /\ candidates = << >>
    /\ retResp = NoRetResp
    /\ examples = << >>
    /\ vlmCalls = 0
    /\ description = NoneV
    /\ current_description = NoneV
    /\ final_image_path = 0
    /\ it = 0
    /\ image_path = 0
    /\ critResp = NoCritResp
    /\ crit = NoCrit
    /\ nVisualize = 0
    /\ nCritique = 0
    /\ failedAt = ""
    /\ planning = << >>
    /\ iter_png = << >>
    /\ iter_details = << >>
    /\ final_output = << >>
    /\ exit_code = -1
    /\ run_dir = FALSE
    /\ index = "none"
    /\ modelCalls = 0
    /\ calls = << >>
    /\ plan_call = NoPlanCall
    /\ style_in = NoneV
    /\ crit_call = NoCritCall
    /\ visOut = NoVisOut

Init ==
    /\ pc = "main"
    /\ mode \in Modes
    /\ iterations \in Caps
    /\ input_exists \in BOOLEAN
    /\ api_key \in BOOLEAN
    /\ GenerateIdle
    /\ gw = GwIdle
    /\ clock = 0
    /\ runs = NoRuns
    /\ xc = NoExtract
    /\ nRequests = 0
    /\ plan_sent = NoPlanSent

\* A main() that calls generate() whether or not the input file exists.
MainEntersGenerate(exists) == "create_run_dir"

\* main(): where control goes after the check of --input / --data:
\* sys.exit(1), or the call of generate().
MainGoesTo(exists) == IF exists THEN "create_run_dir" ELSE "exited"

\* main(): the subcommand gives the mode; a missing input file is reported
\* and ends the process with status 1.
Main ==
    /\ pc = "main"
    /\ pc' = MainGoesTo(input_exists)
    /\ exit_code' = IF pc' = "exited" THEN 1 ELSE exit_code
    /\ UNCHANGED << mode, iterations, retrieveVars, description, loopVars, countVars,
                    failedAt, fileVars, input_exists, api_key, run_dir, index,
                    modelCalls, calls, stageVars, visOut, otherVars >>

\* generate(): run_dir.mkdir(parents=True, exist_ok=True)
CreateRunDir ==
    /\ pc = "create_run_dir"
    /\ run_dir' = TRUE
    /\ pc' = "load_references"
    /\ UNCHANGED << mode, iterations, retrieveVars, description, loopVars, countVars,
                    failedAt, fileVars, mainVars, index, modelCalls, calls,
                    stageVars, visOut, otherVars >>

\* An exception leaves generate(): nothing catches it.
Abort(stage) ==
    /\ pc' = "aborted"
    /\ failedAt' = stage

\* candidates = load_references(...): the empty pool when the index is missing
LoadReferences ==
    /\ pc = "load_references"
    /\ \E found \in IndexStates, pool \in GenPools :
          LET r == load_references(found, pool)
          IN  /\ index' = found
              /\ IF r.raised
                 THEN Abort("load_references") /\ UNCHANGED candidates
                 ELSE /\ candidates' = r.value
                      /\ pc' = "retrieve"
                      /\ UNCHANGED failedAt
    /\ UNCHANGED << mode, iterations, num_examples, retResp, examples, vlmCalls,
                    description, loopVars, countVars, fileVars, mainVars, run_dir,
                    modelCalls, calls, stageVars, visOut, otherVars >>

\* The answers call_vlm can end with: without an API key _get_client leaves
\* by sys.exit(1) before any request is sent.
RetrieverAnswers == IF api_key THEN GenRetrieverResponses ELSE {NoObject("raise")}
TextAnswers == IF api_key THEN Texts \cup {"raise"} ELSE {"raise"}

\* examples = retrieve(source_context, caption, candidates, NUM_RETRIEVAL_EXAMPLES)
RetrieveStep ==
    /\ pc = "retrieve"
    /\ calls' = Append(calls, "retrieve")
    /\ \E resp \in RetrieverAnswers :
          LET r == Retrieve(candidates, num_examples, resp)
          IN  /\ candidates' = PoolAfterRetrieve(candidates, num_examples, resp)
              /\ vlmCalls' = vlmCalls + r.calls
              /\ modelCalls' = modelCalls + r.calls
              /\ retResp' = IF r.calls > 0 THEN resp ELSE retResp
              /\ IF r.raised
                 THEN Abort("retrieve") /\ UNCHANGED examples
                 ELSE /\ examples' = r.value
                      /\ pc' = "plan"
                      /\ UNCHANGED failedAt
    /\ UNCHANGED << mode, iterations, num_examples, description,
                    loopVars, countVars, fileVars, mainVars, run_dir, index,
                    stageVars, visOut, otherVars >>

\* description = plan(source_context, caption, examples)
PlanStep ==
    /\ pc = "plan"
    /\ calls' = Append(calls, "plan")
    /\ modelCalls' = modelCalls + 1
    /\ \E answer \in TextAnswers :
          LET r == Plan(examples, answer)
          IN  /\ plan_call' = [examples |-> examples, zero_shot |-> r.zero_shot,
                               answer |-> answer, called |-> TRUE]
              /\ IF r.raised
                 THEN Abort("plan") /\ UNCHANGED description
                 ELSE /\ description' = r.value
                      /\ pc' = "style"
                      /\ UNCHANGED failedAt
    /\ UNCHANGED << mode, iterations, retrieveVars, loopVars, countVars, fileVars,
                    mainVars, run_dir, index, style_in, crit_call, visOut, otherVars >>

\* A generate() that leaves the stylist out.
StyleStepSkipped ==
    /\ pc = "style"
    /\ pc' = "save_planning"
    /\ UNCHANGED << mode, iterations, retrieveVars, description, loopVars, countVars,
                    failedAt, fileVars, mainVars, run_dir, index, modelCalls, calls,
                    stageVars, visOut, otherVars >>

\* description = style(description, source_context, caption)
StyleStep ==
    /\ pc = "style"
    /\ calls' = Append(calls, "style")
    /\ modelCalls' = modelCalls + 1
    /\ style_in' = description
    /\ \/ Abort("style") /\ UNCHANGED description
       \/ /\ \E t \in Texts : description' = t
          /\ pc' = "save_planning"
          /\ UNCHANGED failedAt
    /\ UNCHANGED << mode, iterations, retrieveVars, loopVars, countVars, fileVars,
                    mainVars, run_dir, index, plan_call, crit_call, visOut, otherVars >>

\* A generate() that does not persist the planning record.
SavePlanningSkipped ==
    /\ pc = "save_planning"
    /\ current_description' = description
    /\ final_image_path' = 0
    /\ pc' = "loop"
    /\ UNCHANGED << mode, iterations, retrieveVars, description, it, image_path,
                    critResp, crit, countVars, failedAt, fileVars, mainVars, run_dir,
                    index, modelCalls, calls, stageVars, visOut, otherVars >>

\* planning.json is written; current_description = description;
\* final_image_path = None
SavePlanning ==
    /\ pc = "save_planning"
    /\ planning' = << [retrieved_examples |-> [k \in 1 .. Len(examples) |-> examples[k].id],
                       initial_description |-> description] >>
    /\ current_description' = description
    /\ final_image_path' = 0
    /\ pc' = "loop"
    /\ UNCHANGED << mode, iterations, retrieveVars, description, it, image_path,
                    critResp, crit, countVars, failedAt, iter_png, iter_details,
                    final_output, mainVars, run_dir, index, modelCalls, calls,
                    stageVars, visOut, otherVars >>

\* for i in range(iterations): the next iteration starts, or the loop is left
LoopNext ==
    /\ pc = "loop"
    /\ IF LoopContinues(it, iterations)
       THEN it' = it + 1 /\ pc' = "visualize"
       ELSE it' = it /\ pc' = "copy_final"
    /\ UNCHANGED << mode, iterations, retrieveVars, description, current_description,
                    final_image_path, image_path, critResp, crit, countVars,
                    failedAt, fileVars, mainVars, run_dir, index, modelCalls, calls,
                    stageVars, visOut, otherVars >>

\* A final_image_path that keeps the first artifact.
KeepFirstPath(old, new) == IF old = 0 THEN new ELSE old

\* final_image_path = image_path
FinalImagePath(old, new) == new

\* image_path = visualize(current_description, ..., output_path = iter_{i+1}.png);
\* final_image_path = image_path
VisualizeStep ==
    /\ pc = "visualize"
    /\ nVisualize' = nVisualize + 1
    /\ calls' = Append(calls, "visualize")
    /\ modelCalls' = modelCalls + 1
    /\ \E env \in VisualizeOutcomes(mode) :
          LET r == Visualize(mode, env)
              out == [result |-> IF r.raised THEN "raise" ELSE r.kind,
                      cause |-> r.cause, env |-> env, writes |-> r.writes,
                      requests |-> r.requests,
                      temp |-> IF mode = "plot" THEN PlotTempFile(env) ELSE "none"]
          IN  /\ visOut' = out
              /\ CASE r.blocked ->
                        /\ pc' = "blocked"
                        /\ UNCHANGED << image_path, final_image_path, iter_png, failedAt >>
                   [] r.raised ->
                        /\ Abort("visualize")
                        /\ UNCHANGED << image_path, final_image_path, iter_png >>
                   [] OTHER ->
                        /\ iter_png' = Append(iter_png, [iteration |-> it,
                                                         description |-> current_description,
                                                         kind |-> r.kind,
                                                         size |-> r.size])
                        /\ image_path' = it
                        /\ final_image_path' = FinalImagePath(final_image_path, it)
                        /\ pc' = "critique"
                        /\ UNCHANGED failedAt
    /\ UNCHANGED << mode, iterations, retrieveVars, description, current_description,
                    it, critResp, crit, nCritique, planning, iter_details, final_output,
                    mainVars, run_dir, index, stageVars, otherVars >>

\* crit = critique(image_path, current_description, source_context, caption)
CritiqueStep ==
    /\ pc = "critique"
    /\ nCritique' = nCritique + 1
    /\ calls' = Append(calls, "critique")
    /\ modelCalls' = modelCalls + 1
    /\ crit_call' = CritiqueArgs(image_path, current_description, description)
    /\ \E resp \in CriticResponses :
          LET r == Critique(resp)
          IN  /\ critResp' = resp
              /\ IF r.raised
                 THEN Abort("critique") /\ UNCHANGED crit
                 ELSE /\ crit' = [critic_suggestions |-> r.critic_suggestions,
                                  revised_description |-> r.revised_description]
                      /\ pc' = "save_details"
                      /\ UNCHANGED failedAt
    /\ UNCHANGED << mode, iterations, retrieveVars, description, current_description,
                    final_image_path, it, image_path, nVisualize, fileVars,
                    mainVars, run_dir, index, plan_call, style_in, visOut, otherVars >>

\* A save step that adopts the revised description while it writes the
\* details file, before the revision check.
SaveIterDetailsAdopting ==
    /\ pc = "save_details"
    /\ iter_details' = Append(iter_details,
                              [iteration |-> it,
                               description |-> current_description,
                               critic_suggestions |-> crit.critic_suggestions,
                               revised_description |-> crit.revised_description])
    /\ current_description' = crit.revised_description
    /\ pc' = "decide"
    /\ UNCHANGED << mode, iterations, retrieveVars, description, final_image_path,
                    it, image_path, critResp, crit, countVars,
                    failedAt, planning, iter_png, final_output, mainVars, run_dir,
                    index, modelCalls, calls, stageVars, visOut, otherVars >>

\* iter_{i+1}_details.json is written
SaveIterDetails ==
    /\ pc = "save_details"
    /\ iter_details' = Append(iter_details,
                              [iteration |-> it,
                               description |-> current_description,
                               critic_suggestions |-> crit.critic_suggestions,
                               revised_description |-> crit.revised_description])
    /\ pc' = "decide"
    /\ UNCHANGED << mode, iterations, retrieveVars, description, loopVars, countVars,
                    failedAt, planning, iter_png, final_output, mainVars, run_dir,
                    index, modelCalls, calls, stageVars, visOut, otherVars >>

\* A loop that goes on with the description it had.
NextDescriptionKept(cur, c) == cur

\* current_description = crit["revised_description"]
NextDescription(cur, c) == c.revised_description

\* the check at the end of the loop body
Decide ==
    /\ pc = "decide"
    /\ IF Revises(crit)
       THEN current_description' = NextDescription(current_description, crit) /\ pc' = "loop"
       ELSE current_description' = current_description /\ pc' = "copy_final"
    /\ UNCHANGED << mode, iterations, retrieveVars, description, final_image_path,
                    it, image_path, critResp, crit, countVars, failedAt, fileVars,
                    mainVars, run_dir, index, modelCalls, calls, stageVars, visOut,
                    otherVars >>

\* shutil.copy2(final_image_path, final_output): a TypeError when the path is None
CopyFinal ==
    /\ pc = "copy_final"
    /\ IF final_image_path = 0
       THEN Abort("copy_final") /\ UNCHANGED final_output
       ELSE /\ final_output' = << iter_png[final_image_path] >>
            /\ pc' = "done"
            /\ UNCHANGED failedAt
    /\ UNCHANGED << mode, iterations, retrieveVars, description, loopVars, countVars,
                    planning, iter_png, iter_details, mainVars, run_dir, index,
                    modelCalls, calls, stageVars, visOut, otherVars >>

Next ==
    \/ Main
    \/ CreateRunDir
    \/ LoadReferences
    \/ RetrieveStep
    \/ PlanStep
    \/ StyleStep
    \/ SavePlanning
    \/ LoopNext
    \/ VisualizeStep
    \/ CritiqueStep
    \/ SaveIterDetails
    \/ Decide
    \/ CopyFinal

Spec == Init /\ [][Next]_vars

\* generate() is one sequential flow: every call it makes blocks until it
\* returns or raises, so a step that can be taken is taken.
FairSpec == Spec /\ WF_vars(Next)

\* The runs of the plot subcommand that enter generate() with an API key
\* set and a cap that lets the loop run
InitPlot ==
    /\ Init
    /\ mode = "plot"
    /\ iterations \in 1 .. MaxPlotK
    /\ input_exists
    /\ api_key

FairPlotSpec == InitPlot /\ [][Next]_vars /\ WF_vars(Next)

(***************************************************************************)
(* retrieve() on its own: every pool, cap and model response               *)
(***************************************************************************)
Pools == {MkPool(ids) : ids \in SeqsUpTo(PoolIds, MaxPool)}

InitRetrieve ==
    /\ pc = "r_call"
    /\ mode \in {"diagram"}
    /\ iterations = 0
    /\ candidates \in Pools
    /\ num_examples \in 0 .. MaxPool
    /\ retResp = NoRetResp
    /\ examples = << >>
    /\ vlmCalls = 0
    /\ description = NoneV
    /\ current_description = NoneV
    /\ final_image_path = 0
    /\ it = 0
    /\ image_path = 0
    /\ critResp = NoCritResp
    /\ crit = NoCrit
    /\ nVisualize = 0
    /\ nCritique = 0
    /\ failedAt = ""
    /\ planning = << >>
    /\ iter_png = << >>
    /\ iter_details = << >>
    /\ final_output = << >>
    /\ input_exists = TRUE
    /\ api_key = TRUE
    /\ exit_code = -1
    /\ run_dir = FALSE
    /\ index = "none"
    /\ modelCalls = 0
    /\ calls = << >>
    /\ plan_call = NoPlanCall
    /\ style_in = NoneV
    /\ crit_call = NoCritCall
    /\ visOut = NoVisOut
    /\ gw = GwIdle
    /\ clock = 0
    /\ runs = NoRuns
    /\ xc = NoExtract
    /\ nRequests = 0
    /\ plan_sent = NoPlanSent

\* One call of retrieve(source_context, caption, candidates, num_examples)
RetrieveCall ==
    /\ pc = "r_call"
    /\ \E resp \in RetrieverResponses :
          LET r == Retrieve(candidates, num_examples, resp)
          IN  /\ candidates' = PoolAfterRetrieve(candidates, num_examples, resp)
              /\ vlmCalls' = r.calls
              /\ retResp' = IF r.calls > 0 THEN resp ELSE retResp
              /\ examples' = r.value
              /\ pc' = IF r.raised THEN "r_raised" ELSE "r_returned"
    /\ UNCHANGED << mode, iterations, num_examples, description,
                    loopVars, countVars, failedAt, fileVars, mainVars, run_dir,
                    index, modelCalls, calls, stageVars, visOut, otherVars >>

NextRetrieve == RetrieveCall

SpecRetrieve == InitRetrieve /\ [][NextRetrieve]_vars

(***************************************************************************)
(* One invocation of call_vlm or generate_image                            *)
(***************************************************************************)
InitGateway ==
    /\ pc = "gateway"
    /\ mode \in {"diagram"}
    /\ iterations = 0
    /\ input_exists = TRUE
    /\ api_key \in BOOLEAN
    /\ GenerateIdle
    /\ gw \in {[kind |-> k, state |-> "calling", attempts |-> 0, log |-> << >>] :
                  k \in {"vlm", "image"}}
    /\ clock = 0
    /\ runs = NoRuns
    /\ xc = NoExtract
    /\ nRequests = 0
    /\ plan_sent = NoPlanSent

\* One attempt: the body of the decorated function runs once.
GwAttempt ==
    /\ pc = "gateway"
    /\ gw.state = "calling"
    /\ \E o \in (IF api_key THEN AttemptOutcomes(gw.kind) ELSE {"no_api_key"}) :
          gw' = [kind |-> gw.kind,
                 state |-> AfterAttempt(gw.kind, gw.attempts + 1, o),
                 attempts |-> gw.attempts + 1,
                 log |-> Append(gw.log, o)]
    /\ UNCHANGED << pc, mode, iterations, retrieveVars, description, loopVars,
                    countVars, failedAt, fileVars, mainVars, run_dir, index,
                    modelCalls, calls, stageVars, visOut, clock, runs, xc,
                    nRequests, plan_sent >>

NextGateway == GwAttempt

SpecGateway == InitGateway /\ [][NextGateway]_vars

(***************************************************************************)
(* Runs of generate() side by side with the same output_dir                *)
(***************************************************************************)
RunIds == 1 .. NumRuns
\* uuid.uuid4().hex[:6]: one of finitely many suffixes
Suffixes == 1 .. MaxSuffix
\* A run that has not read the clock yet (ts -1, short_uuid 0: not assigned)
RunStart == [at |-> "ts", ts |-> -1, short_uuid |-> 0, made |-> FALSE, found |-> FALSE,
             files |-> 0]

InitRuns ==
    /\ pc = "runs"
    /\ mode \in {"diagram"}
    /\ iterations = 0
    /\ input_exists = TRUE
    /\ api_key = TRUE
    /\ GenerateIdle
    /\ gw = GwIdle
    /\ clock = 0
    /\ runs = [r \in RunIds |-> RunStart]
    /\ xc = NoExtract
    /\ nRequests = 0
    /\ plan_sent = NoPlanSent

\* run_dir = Path(output_dir) / f"run_{ts}_{short_uuid}"
RunDirOf(r) == << r.ts, r.short_uuid >>
\* The directory of run_id exists: some run has made it.
DirExists(d) == \E q \in RunIds : runs[q].made /\ RunDirOf(runs[q]) = d

runsUnchanged ==
    UNCHANGED << pc, mode, iterations, retrieveVars, description, loopVars,
                 countVars, failedAt, fileVars, mainVars, run_dir, index,
                 modelCalls, calls, stageVars, visOut, gw, xc,
                 nRequests, plan_sent >>

\* A second passes on the wall clock.
Tick ==
    /\ pc = "runs"
    /\ clock < MaxClock
    /\ clock' = clock + 1
    /\ UNCHANGED runs
    /\ runsUnchanged

\* ts = datetime.datetime.now().strftime("%Y%m%d_%H%M%S")
RunTimestamp(p) ==
    /\ pc = "runs"
    /\ runs[p].at = "ts"
    /\ runs' = [runs EXCEPT ![p].ts = clock, ![p].at = "uuid"]
    /\ UNCHANGED clock
    /\ runsUnchanged

\* short_uuid = uuid.uuid4().hex[:6]
RunUuid(p) ==
    /\ pc = "runs"
    /\ runs[p].at = "uuid"
    /\ \E u \in Suffixes :
          runs' = [runs EXCEPT ![p].short_uuid = u, ![p].at = "mkdir"]
    /\ UNCHANGED clock
    /\ runsUnchanged

\* run_dir.mkdir(parents=True, exist_ok=True): a directory that is there
\* already is taken as it is.
RunMkdir(p) ==
    /\ pc = "runs"
    /\ runs[p].at = "mkdir"
    /\ runs' = [runs EXCEPT ![p].found = DirExists(RunDirOf(runs[p])),
                            ![p].made = TRUE,
                            ![p].at = "write"]
    /\ UNCHANGED clock
    /\ runsUnchanged

\* planning.json, iter_n.png, iter_n_details.json and final_output.png are
\* written into run_dir
RunWrite(p) ==
    /\ pc = "runs"
    /\ runs[p].at = "write"
    /\ runs' = [runs EXCEPT ![p].files = 1, ![p].at = "done"]
    /\ UNCHANGED clock
    /\ runsUnchanged

NextRuns ==
    \/ Tick
    \/ \E p \in RunIds : RunTimestamp(p)
    \/ \E p \in RunIds : RunUuid(p)
    \/ \E p \in RunIds : RunMkdir(p)
    \/ \E p \in RunIds : RunWrite(p)

SpecRuns == InitRuns /\ [][NextRuns]_vars

(***************************************************************************)
(* _extract_code() on its own: every response                              *)
(***************************************************************************)
Responses == SeqsUpTo(Pieces, MaxResp)

InitExtract ==
    /\ pc = "extract"
    /\ mode \in {"plot"}
    /\ iterations = 0
    /\ input_exists = TRUE
    /\ api_key = TRUE
    /\ GenerateIdle
    /\ gw = GwIdle
    /\ clock = 0
    /\ runs = NoRuns
    /\ xc \in {[response |-> r, state |-> "called", code |-> << >>] : r \in Responses}
    /\ nRequests = 0
    /\ plan_sent = NoPlanSent

\* code = _extract_code(code_response)
ExtractCodeCall ==
    /\ pc = "extract"
    /\ xc.state = "called"
    /\ LET r == ExtractCode(xc.response)
       IN  xc' = [response |-> xc.response,
                  state |-> IF r.raised THEN "raised" ELSE "returned",
                  code |-> r.code]
    /\ UNCHANGED << pc, mode, iterations, retrieveVars, description, loopVars,
                    countVars, failedAt, fileVars, mainVars, run_dir, index,
                    modelCalls, calls, stageVars, visOut, gw, clock, runs,
                    nRequests, plan_sent >>

NextExtract == ExtractCodeCall

SpecExtract == InitExtract /\ [][NextExtract]_vars

(***************************************************************************)
(* The requests one run of generate() sends to the model service           *)
(***************************************************************************)
\* The decorated function a stage calls: _generate_diagram calls
\* generate_image; retrieve, plan, style, _generate_plot and critique call
\* call_vlm.
GatewayOf(stage, m) ==
    IF stage = "visualize" /\ m = "diagram" THEN "image" ELSE "vlm"

\* An attempt sends one request, unless _get_client left before it.
RequestsOf(o) == IF o = "no_api_key" THEN 0 ELSE 1

\* Where generate() goes when the call of a stage has returned: on to the
\* next stage; out of visualize() by an exception of _extract_code in plot
\* mode; out of critique() by an exception, else to the next iteration or
\* out of the loop.
AfterStage(stage, m) ==
    CASE stage = "retrieve"  -> {"plan"}
      [] stage = "plan"      -> {"style"}
      [] stage = "style"     -> {"loop"}
      [] stage = "visualize" ->
            IF m = "plot" THEN {"critique", "aborted"} ELSE {"critique"}
      [] stage = "critique"  -> {"loop", "done", "aborted"}

CallingStages == {"retrieve", "plan", "style", "visualize", "critique"}

InitRequests ==
    /\ pc = "retrieve"
    /\ mode \in Modes
    /\ iterations \in Caps
    /\ input_exists = TRUE
    /\ api_key \in BOOLEAN
    /\ GenerateIdle
    /\ gw = GwIdle
    /\ clock = 0
    /\ runs = NoRuns
    /\ xc = NoExtract
    /\ nRequests = 0
    /\ plan_sent = NoPlanSent

requestsUnchanged ==
    UNCHANGED << mode, iterations, retrieveVars, description, current_description,
                 final_image_path, image_path, critResp, crit, countVars, fileVars,
                 mainVars, run_dir, index, modelCalls, calls, stageVars, visOut,
                 clock, runs, xc, plan_sent >>

\* A stage calls the decorated function; retrieve() returns the pool
\* without a call when it is not larger than the cap.
StageCalls ==
    /\ pc \in CallingStages
    /\ gw.state = "idle"
    /\ \/ /\ gw' = [kind |-> GatewayOf(pc, mode), state |-> "calling",
                    attempts |-> 0, log |-> << >>]
          /\ pc' = pc
       \/ /\ pc = "retrieve"
          /\ pc' = "plan"
          /\ gw' = gw
    /\ UNCHANGED << it, failedAt, nRequests >>
    /\ requestsUnchanged

\* One attempt of the call in progress
RequestAttempt ==
    /\ pc \in CallingStages
    /\ gw.state = "calling"
    /\ \E o \in (IF api_key THEN AttemptOutcomes(gw.kind) ELSE {"no_api_key"}) :
          /\ gw' = [kind |-> gw.kind,
                    state |-> AfterAttempt(gw.kind, gw.attempts + 1, o),
                    attempts |-> gw.attempts + 1,
                    log |-> << >>]
          /\ nRequests' = nRequests + RequestsOf(o)
    /\ UNCHANGED << pc, it, failedAt >>
    /\ requestsUnchanged

\* The call has ended: sys.exit leaves the process, an exception leaves
\* generate(), a value lets the stage finish.
StageEnds ==
    /\ pc \in CallingStages
    /\ gw.state \in {"returned", "raised", "exited"}
    /\ gw' = GwIdle
    /\ CASE gw.state = "exited" -> pc' = "exited" /\ UNCHANGED failedAt
         [] gw.state = "raised" -> Abort(pc)
         [] OTHER ->
               \E to \in AfterStage(pc, mode) :
                  IF to = "aborted" THEN Abort(pc)
                  ELSE pc' = to /\ UNCHANGED failedAt
    /\ UNCHANGED << it, nRequests >>
    /\ requestsUnchanged

\* for i in range(iterations)
LoopHead ==
    /\ pc = "loop"
    /\ IF LoopContinues(it, iterations)
       THEN it' = it + 1 /\ pc' = "visualize"
       ELSE it' = it /\ pc' = "done"
    /\ UNCHANGED << gw, failedAt, nRequests >>
    /\ requestsUnchanged

NextRequests ==
    \/ StageCalls
    \/ RequestAttempt
    \/ StageEnds
    \/ LoopHead

SpecRequests == InitRequests /\ [][NextRequests]_vars

(***************************************************************************)
(* plan() on its own: the image references of the prompt and the images    *)
(* passed with it                                                          *)
(***************************************************************************)
\* The image of an example: the record has no image_path; the path names
\* no file; the file opens as an image; the file is there and Image.open
\* raises on it.
ImageStates == {"no_path", "missing", "loads", "unreadable"}

\* ex.get("image_path") and Path(ex["image_path"]).exists()
HasImage(e) == e \in {"loads", "unreadable"}

\* The first loop of plan(): an example that has an image gets the next
\* img_index in its prompt entry. i is the place of the first example of
\* exs in the list, img_index the count so far.
RECURSIVE ImageRefs(_, _, _)
ImageRefs(exs, i, img_index) ==
    IF exs = << >> THEN << >>
    ELSE IF HasImage(Head(exs))
         THEN << [example |-> i, number |-> img_index + 1] >>
                 \o ImageRefs(Tail(exs), i + 1, img_index + 1)
         ELSE ImageRefs(Tail(exs), i + 1, img_index)

\* The second loop of plan(): the image of an example that has one is
\* opened and appended to example_images; when Image.open raises, a
\* warning is printed and nothing is appended.
RECURSIVE ExampleImages(_, _)
ExampleImages(exs, i) ==
    IF exs = << >> THEN << >>
    ELSE IF HasImage(Head(exs)) /\ Head(exs) = "loads"
         THEN << i >> \o ExampleImages(Tail(exs), i + 1)
         ELSE ExampleImages(Tail(exs), i + 1)

InitPlanImages ==
    /\ pc = "plan_images"
    /\ mode \in {"diagram"}
    /\ iterations = 0
    /\ input_exists = TRUE
    /\ api_key = TRUE
    /\ GenerateIdle
    /\ gw = GwIdle
    /\ clock = 0
    /\ runs = NoRuns
    /\ xc = NoExtract
    /\ nRequests = 0
    /\ plan_sent \in {[examples |-> exs, state |-> "called", refs |-> << >>,
                       images |-> << >>] : exs \in SeqsUpTo(ImageStates, MaxRefs)}

\* One call of plan() up to its call_vlm(prompt, images=example_images)
PlanImagesCall ==
    /\ pc = "plan_images"
    /\ plan_sent.state = "called"
    /\ plan_sent' = [examples |-> plan_sent.examples,
                     state |-> "sent",
                     refs |-> ImageRefs(plan_sent.examples, 1, 0),
                     images |-> ExampleImages(plan_sent.examples, 1)]
    /\ UNCHANGED << pc, mode, iterations, retrieveVars, description, loopVars,
                    countVars, failedAt, fileVars, mainVars, run_dir, index,
                    modelCalls, calls, stageVars, visOut, gw, clock, runs, xc,
                    nRequests >>

NextPlanImages == PlanImagesCall

SpecPlanImages == InitPlanImages /\ [][NextPlanImages]_vars

(***************************************************************************)
(* Properties of the refinement loop                                       *)
(***************************************************************************)
Cap0 == Max(iterations, 0)

\* The decision of iteration n has been taken.
Decided(n) == it > n \/ (it = n /\ pc \in {"loop", "copy_final", "done"})
\* The loop was left after iteration n.
StoppedAt(n) == it = n /\ pc \in {"copy_final", "done"}

\* C1: the loop stops after an iteration n < K if and only if the suggestions
\* the critic returned at iteration n are empty, whatever the revised
\* description that came with them.
C1_StopsEarlyIffNoSuggestions ==
    \A n \in 1 .. Len(iter_details) :
        (n < iterations /\ Decided(n)) =>
            (StoppedAt(n) <=> iter_details[n].critic_suggestions = << >>)

\* C2: a run makes at most K visualize calls and at most K critique calls
\* (none when K is negative), it can only come to rest done or aborted (or
\* in a main() that never called generate()), and after a stage failed
\* nothing is invoked again.
C2_BoundedCalls ==
    /\ nVisualize <= Cap0
    /\ nCritique <= Cap0
    /\ (failedAt # "" <=> pc = "aborted")
    /\ (pc = "aborted" => ~ENABLED Next)
    /\ (~ENABLED Next => pc \in {"done", "aborted", "exited"})

\* The run comes to rest: checked under FairSpec.
Terminates == <>(pc \in {"done", "aborted", "exited"})

\* C2 witness: a run that used its whole cap and stopped with suggestions open.
C2_Witness ==
    /\ pc = "done"
    /\ iterations >= 2
    /\ nVisualize = iterations
    /\ nCritique = iterations
    /\ NeedsRevision(crit)

\* C3: the decision step changes current_description only when the same
\* critique returned suggestions, and then to that critique's revised
\* description; with no suggestions the description stays and the loop ends.
C3_AdoptOnlyWithSuggestions ==
    [][pc = "decide" =>
          /\ (current_description' # current_description =>
                 /\ NeedsRevision(crit)
                 /\ current_description' = crit.revised_description)
          /\ (~NeedsRevision(crit) =>
                 /\ current_description' = current_description
                 /\ pc' = "copy_final")]_vars

\* C3 witness: a revised description was adopted for the second iteration,
\* after a critique with suggestions.
C3_Witness ==
    /\ pc = "visualize"
    /\ it = 2
    /\ NeedsRevision(crit)
    /\ current_description = crit.revised_description
    /\ current_description # description

\* The answers the critic gave agree with the scenario: suggestions at every
\* iteration before the K-th, none at the K-th.
MatchesScenario ==
    \A n \in 1 .. Len(iter_details) :
        /\ n < iterations => iter_details[n].critic_suggestions # << >>
        /\ n = iterations => iter_details[n].critic_suggestions = << >>

\* C4: with a critic that returns suggestions at iterations 1..K-1 and none
\* at iteration K, a finished run has produced exactly K artifacts and
\* stopped at iteration K.
C4_ScenarioRunsKIterations ==
    (pc = "done" /\ iterations >= 1 /\ MatchesScenario) =>
        (Len(iter_png) = iterations /\ it = iterations)

\* C5: when the critic's response is no JSON, critique() returns empty
\* suggestions and no revised description without raising, no further
\* iteration is started, and the artifact of that iteration is copied.
C5_UnparsableCritiqueStops ==
    critResp.kind = "unparsable" =>
        /\ crit = NoCrit
        /\ pc \in {"save_details", "decide", "copy_final", "done"}
        /\ failedAt = ""
        /\ nCritique = it
        /\ (pc \in {"copy_final", "done"} => final_image_path = it)
        /\ (pc = "done" => final_output = << iter_png[it] >>)

\* C5 witness: a run finished at an iteration below the cap on an
\* unparsable critic response.
C5_Witness ==
    /\ critResp.kind = "unparsable"
    /\ pc = "done"
    /\ it >= 2
    /\ it < iterations

(***************************************************************************)
(* Properties of retrieve()                                                *)
(***************************************************************************)
RetrieveEnded == pc \in {"r_returned", "r_raised"}
ExampleIds == [k \in 1 .. Len(examples) |-> examples[k].id]

\* C6: a pool no larger than the cap (the empty pool and a pool of exactly
\* cap elements included) is returned as it is, same elements in the same
\* order, and no model call is issued.
C6_SmallPoolPassesThrough ==
    (RetrieveEnded /\ Len(candidates) <= num_examples) =>
        /\ pc = "r_returned"
        /\ examples = candidates
        /\ vlmCalls = 0
        /\ retResp = NoRetResp

\* C6 witness: a pool of exactly cap elements was passed through.
C6_Witness ==
    /\ pc = "r_returned"
    /\ Len(candidates) = num_examples
    /\ num_examples >= 2
    /\ examples = candidates

\* C7: whenever retrieve() returns, every returned example is an element of
\* the pool and at most cap examples are returned; a JSON object never makes
\* it raise, whatever ids it names.
C7_SubsetOfPoolWithinCap ==
    /\ pc = "r_returned" =>
          /\ Len(examples) <= num_examples
          /\ \A k \in 1 .. Len(examples) :
                \E j \in 1 .. Len(candidates) : examples[k] = candidates[j]
    /\ (RetrieveEnded /\ retResp.kind = "object") => pc = "r_returned"

\* C7 witness: the model named an id no pool element has next to more pool
\* ids than the cap allows, and retrieve() returned cap examples.
C7_Witness ==
    /\ pc = "r_returned"
    /\ retResp.kind = "object"
    /\ num_examples >= 1
    /\ Len(examples) = num_examples
    /\ Len(retResp.selected_ids.ids) > num_examples
    /\ \E j \in 1 .. Len(retResp.selected_ids.ids) :
          retResp.selected_ids.ids[j] = FabricatedId

\* The ids the response names, and the places among them that hold the id
\* of a pool element.
NamedByModel == SelectedIds(retResp)
NamedHits ==
    {j \in 1 .. Len(NamedByModel) :
        \E k \in 1 .. Len(candidates) : candidates[k].id = NamedByModel[j]}

\* C8: when the pool is larger than the cap and the response names ids, the
\* k-th returned example carries the k-th named id that is the id of a pool
\* element: the order is the response's, and the cut to cap keeps the
\* earliest named.
C8_PriorityOrder ==
    (pc = "r_returned" /\ Len(candidates) > num_examples /\ retResp.kind = "object") =>
        /\ Len(examples) = Min(num_examples, Cardinality(NamedHits))
        /\ \A k \in 1 .. Len(examples) :
              \E j \in NamedHits :
                 /\ Cardinality({h \in NamedHits : h < j}) = k - 1
                 /\ examples[k].id = NamedByModel[j]

\* C8 witness: two examples returned in the response's order, which is not
\* the pool's order, with a third named id cut off.
C8_Witness ==
    /\ pc = "r_returned"
    /\ retResp.kind = "object"
    /\ [k \in 1 .. Len(candidates) |-> candidates[k].id] = << 1, 2, 3 >>
    /\ num_examples = 1
    /\ retResp.selected_ids = Holds(<< 2, 1 >>)
    /\ ExampleIds = << 2 >>

NoAcceptedKey(resp) ==
    /\ resp.kind = "object"
    /\ ~resp.selected_ids.present
    /\ ~resp.top_10_papers.present
    /\ ~resp.top_10_plots.present

\* C9: when the pool is larger than the cap and the response is no JSON, or
\* is an object with none of the accepted keys, retrieve() returns the first
\* cap candidates in pool order.
C9_FallbackToFirstCap ==
    (RetrieveEnded /\ Len(candidates) > num_examples
       /\ (retResp.kind = "unparsable" \/ NoAcceptedKey(retResp))) =>
        /\ pc = "r_returned"
        /\ examples = Prefix(candidates, num_examples)

\* C10: no malformed response to the selector or to the critic ends the run:
\* a run is ended in retrieve() or critique() only by the failure of the
\* model call itself.
C10_MalformedNeverAborts ==
    /\ failedAt = "retrieve" => retResp.kind = "raise"
    /\ failedAt = "critique" => critResp.kind = "raise"

(***************************************************************************)
(* Properties of the run as a whole                                        *)
(***************************************************************************)
\* The last visualize() call ran generated plot code, and the run of that
\* code failed: a non-zero exit, a timeout, or exit 0 without the file.
PlotExecutionFailed ==
    /\ mode = "plot"
    /\ visOut.env.code = "code"
    /\ ~(visOut.env.run.returncode = "zero" /\ visOut.env.run.wrote)

\* C11: in plot mode, when the execution of the generated code fails in any
\* of the three ways, visualize() does not raise, the artifact of that
\* iteration exists and is the blank 1024x768 placeholder, and the run goes
\* on to the critique of that iteration.
C11_PlotFailureGivesPlaceholder ==
    PlotExecutionFailed =>
        LET n == Len(iter_png)
        IN  /\ failedAt # "visualize"
            /\ visOut.result = "placeholder"
            /\ n >= 1
            /\ n = nVisualize
            /\ iter_png[n].iteration = n
            /\ iter_png[n].kind = "placeholder"
            /\ iter_png[n].size = << 1024, 768 >>
            /\ \/ pc = "critique" /\ nCritique = n - 1
               \/ nCritique = n

\* C11 witness: the child exited 0 without writing the file, the placeholder
\* was critiqued and the run finished on it.
C11_Witness ==
    /\ PlotExecutionFailed
    /\ visOut.env.run.returncode = "zero"
    /\ pc = "done"
    /\ final_output[1].kind = "placeholder"

C14_FinalIsLastArtifact ==
    pc = "done" =>
        /\ it >= 1
        /\ it = Len(iter_png)
        /\ it = nVisualize
        /\ final_output = << iter_png[it] >>
        /\ final_output[1].iteration = it

\* C14 witness: a run of three iterations ended with the third artifact.
C14_Witness ==
    /\ pc = "done"
    /\ it = 3
    /\ final_output = << iter_png[3] >>
    /\ final_output # << iter_png[1] >>

\* C15: retrieve, plan and style are called once each, in this order, as the
\* first three stages; plan receives what retrieve returned and style what
\* plan returned; the first visualize comes after all three, and the loop
\* calls only visualize and critique.
C15_PlanningPhaseOnceInOrder ==
    /\ \A k \in 1 .. Len(calls) :
          /\ calls[k] = "retrieve" <=> k = 1
          /\ calls[k] = "plan" <=> k = 2
          /\ calls[k] = "style" <=> k = 3
          /\ k >= 4 => calls[k] \in {"visualize", "critique"}
    /\ plan_call.called <=> Len(calls) >= 2
    /\ plan_call.called => plan_call.examples = examples
    /\ Len(calls) >= 3 => style_in = plan_call.answer /\ plan_call.answer # "raise"
    /\ Len(calls) < 3 => style_in = NoneV
    /\ nVisualize >= 1 =>
          /\ SubSeq(calls, 1, 4) = << "retrieve", "plan", "style", "visualize" >>
          /\ planning = << [retrieved_examples |-> ExampleIds,
                            initial_description |-> description] >>

\* C15 witness: a run of two iterations, with examples retrieved by a model
\* call, whose stylist changed the planner's text.
C15_Witness ==
    /\ pc = "done"
    /\ it >= 2
    /\ vlmCalls = 1
    /\ examples # << >>
    /\ style_in # description
    /\ Len(calls) = 3 + 2 * it

\* The last visualize() call was in diagram mode and the image service
\* answered without an image.
NoImagePayload == mode = "diagram" /\ visOut.env.image = "no_payload"

\* C17: in diagram mode, when the image service answers without an image,
\* the render ends the run with the error: no artifact is written for that
\* iteration, no placeholder stands in for it, and critique is not called
\* for it.
C17_NoPayloadEndsRun ==
    NoImagePayload =>
        /\ pc = "aborted"
        /\ failedAt = "visualize"
        /\ visOut.result = "raise"
        /\ Len(iter_png) = it - 1
        /\ \A k \in 1 .. Len(iter_png) : iter_png[k].kind # "placeholder"
        /\ nCritique = it - 1
        /\ final_output = << >>

\* C17 witness: the second render got no image.
C17_Witness ==
    /\ NoImagePayload
    /\ pc = "aborted"
    /\ it = 2
    /\ Len(iter_png) = 1

\* C18: when the required input file does not exist, main() exits with a
\* non-zero status before generate() is called: no run directory is created
\* and no model call is made.
C18_MissingInputExitsFirst ==
    (~input_exists /\ pc # "main") =>
        /\ pc = "exited"
        /\ exit_code # 0
        /\ exit_code # -1
        /\ ~run_dir
        /\ modelCalls = 0
        /\ calls = << >>
        /\ planning = << >>
        /\ ~ENABLED Next

\* C18 witness: main() has exited on a missing input file.
C18_Witness ==
    /\ ~input_exists
    /\ pc = "exited"
    /\ exit_code = 1

\* generate() has been entered.
Entered == run_dir

AbortCause ==
    /\ failedAt = "load_references" => index = "malformed"
    /\ failedAt = "retrieve" =>
          retResp.kind \in {"raise", "nonobject"} /\ Len(candidates) > num_examples
    /\ failedAt = "plan" => plan_call.answer = "raise"
    /\ failedAt = "visualize" =>
          visOut.cause \in {"generate_image", "no_payload", "call_vlm", "extract_code"}
    /\ failedAt = "critique" =>
          \/ critResp.kind \in {"raise", "nonobject"}
          \/ critResp.kind = "object" /\ critResp.critic_suggestions = KeyNull
    /\ failedAt = "copy_final" => iterations <= 0 /\ nVisualize = 0

C20_MissingIndexRunsZeroShot ==
    index = "missing" =>
        /\ failedAt \notin {"load_references", "retrieve"}
        /\ pc \notin {"main", "create_run_dir", "load_references"}
        /\ candidates = << >>
        /\ examples = << >>
        /\ vlmCalls = 0
        /\ retResp = NoRetResp
        /\ pc = "plan" => modelCalls = 0
        /\ plan_call.called => plan_call.zero_shot /\ plan_call.examples = << >>

\* C20 witness: a run without an index file finished.
C20_Witness ==
    /\ index = "missing"
    /\ plan_call.zero_shot
    /\ modelCalls >= 4
    /\ pc = "done"

(***************************************************************************)
(* Properties of the retry and of the run directory                        *)
(***************************************************************************)
AllFailed(log) == \A k \in 1 .. Len(log) : ~Succeeds(log[k])

\* C16: one call_vlm invocation makes at most 8 attempts and one
\* generate_image invocation at most 3; the first attempt that succeeds is
\* the last attempt and its value is returned; when every attempt has
\* failed the invocation ends by raising, never by returning.
C16_BoundedAttempts ==
    /\ gw.attempts = Len(gw.log)
    /\ gw.kind = "vlm" => gw.attempts <= 8
    /\ gw.kind = "image" => gw.attempts <= 3
    /\ \A k \in 1 .. Len(gw.log) - 1 : ~Succeeds(gw.log[k])
    /\ gw.state = "returned" <=> (gw.log # << >> /\ Succeeds(gw.log[Len(gw.log)]))
    /\ gw.state = "returned" => ~ENABLED GwAttempt
    /\ gw.state = "raised" =>
          /\ AllFailed(gw.log)
          /\ gw.attempts = IF gw.kind = "image" THEN 3 ELSE 8
          /\ ~ENABLED GwAttempt
    /\ (gw.state = "calling" /\ api_key) =>
          (gw.attempts < (IF gw.kind = "image" THEN 3 ELSE 8) /\ ENABLED GwAttempt)
    /\ ~ENABLED GwAttempt => gw.state \in {"returned", "raised", "exited"}

\* C16 witness: generate_image gave up after a third attempt without image.
C16_Witness ==
    /\ gw.kind = "image"
    /\ gw.state = "raised"
    /\ gw.attempts = 3
    /\ gw.log[3] = "no_payload"

\* C12: two runs started side by side with the same output_dir never have
\* the same run directory, so neither writes into the other's.
C12_DistinctRunDirs ==
    \A a, b \in RunIds :
        (a # b /\ runs[a].made /\ runs[b].made) =>
            RunDirOf(runs[a]) # RunDirOf(runs[b])

(***************************************************************************)
(* Properties of the artifacts and of the render strategies                *)
(***************************************************************************)
\* C21: iteration n creates iter_n.png, and every visualize() call that
\* returns has written its artifact file exactly once: not by the generated
\* program and then again by the placeholder, and not over the file of an
\* earlier iteration.
C21_ArtifactWrittenOnce ==
    /\ \A n \in 1 .. Len(iter_png) : iter_png[n].iteration = n
    /\ visOut.result \notin {"none", "raise"} => visOut.writes = 1

AllowedRequests == IF mode = "plot" THEN {"call_vlm", "child"} ELSE {"generate_image"}
AllowedKinds == IF mode = "plot" THEN {"plot", "placeholder"} ELSE {"image"}

\* C22: every visualize() call of a run uses the strategy of the run's mode:
\* in plot mode no request goes to the image service, in diagram mode no
\* code is asked for and no child process is started, and the artifacts of
\* all iterations come from the same strategy.
C22_StrategiesExclusive ==
    /\ visOut.requests \subseteq AllowedRequests
    /\ nVisualize >= 1 => visOut.requests # {}
    /\ visOut.result \notin {"none", "raise"} => visOut.requests = AllowedRequests
    /\ \A n \in 1 .. Len(iter_png) : iter_png[n].kind \in AllowedKinds

\* C22 witness: a plot run whose first render failed in the child and whose
\* second render succeeded.
C22_Witness ==
    /\ mode = "plot"
    /\ pc = "done"
    /\ it >= 2
    /\ iter_png[1].kind = "placeholder"
    /\ iter_png[2].kind = "plot"

\* The child of the last visualize() call did not end within the timeout.
TimedOut ==
    /\ mode = "plot"
    /\ visOut.env.code = "code"
    /\ visOut.env.run.returncode = "timeout"

\* C23: a generated program that does not end cannot hold the run: every
\* visualize() call of a plot run comes back, a timeout is taken as a failed
\* render (the placeholder), and the run then comes to done unless a later
\* model call of the critic or the visualizer raises.
C23_TimeoutDoesNotHang ==
    /\ (pc = "visualize") ~> (pc \in {"critique", "aborted"})
    /\ [](TimedOut => (pc # "blocked" /\ visOut.result = "placeholder"))
    /\ (TimedOut /\ pc = "critique") ~>
          (pc = "done" \/ failedAt \in {"critique", "visualize"})

\* C23 witness: a run finished after a render whose child timed out.
C23_Witness ==
    /\ TimedOut
    /\ pc = "done"
    /\ it >= 2
    /\ final_output[1].kind = "placeholder"

(***************************************************************************)
(* Properties of the critique and of the records of a run                  *)
(***************************************************************************)
\* The critic's last response is a JSON object without critic_suggestions.
SuggestionsKeyAbsent ==
    critResp.kind = "object" /\ critResp.critic_suggestions = KeyAbsent

\* C24: when the critic's response is a JSON object without the key
\* critic_suggestions, critique() returns empty suggestions (and the revised
\* description the response carries), and the loop stops at that iteration
\* with the description unchanged, whatever the revised description is.
C24_AbsentSuggestionsStop ==
    SuggestionsKeyAbsent =>
        /\ failedAt = ""
        /\ crit.critic_suggestions = << >>
        /\ crit.revised_description = GetRevised(critResp.revised_description)
        /\ pc \in {"save_details", "decide", "copy_final", "done"}
        /\ nCritique = it
        /\ nVisualize = it
        /\ pc \in {"copy_final", "done"} =>
              /\ final_image_path = it
              /\ current_description = iter_details[it].description

\* C24 witness: the run stopped below the cap on a response without the key
\* that carried a revised description.
C24_Witness ==
    /\ SuggestionsKeyAbsent
    /\ Truthy(crit.revised_description)
    /\ crit.revised_description # current_description
    /\ pc = "done"
    /\ it < iterations

(***************************************************************************)
(* Properties of _extract_code()                                           *)
(***************************************************************************)
ExtractEnded == xc.state \in {"returned", "raised"}
MinOf(S) == CHOOSE i \in S : \A j \in S : i <= j
FenceAt(r) == {i \in 1 .. Len(r) : r[i] \in Fences}
PythonAt(r) == {i \in 1 .. Len(r) : r[i] = FencePython}

\* c is t without the white space at its two ends.
IsStripOf(c, t) ==
    \E a, b \in 0 .. Len(t) :
        /\ a + b <= Len(t)
        /\ \A i \in 1 .. a : t[i] = White
        /\ \A i \in Len(t) - b + 1 .. Len(t) : t[i] = White
        /\ c = SubSeq(t, a + 1, Len(t) - b)
        /\ c # << >> => (c[1] # White /\ c[Len(c)] # White)

\* The text between the fence at place open and the next fence after it.
BlockAfter(r, open) ==
    SubSeq(r, open + 1, MinOf({j \in FenceAt(r) : j > open}) - 1)
ClosedAfter(r, open) == {j \in FenceAt(r) : j > open} # {}

\* C25 as stated: the result is the content of the first fenced block of
\* the response, whichever marker opens it (checked where that block is
\* closed), and the stripped response when there is no marker.
C25_FirstFencedBlock ==
    ExtractEnded =>
        LET r == xc.response
        IN  /\ FenceAt(r) = {} => (xc.state = "returned" /\ IsStripOf(xc.code, r))
            /\ (FenceAt(r) # {} /\ ClosedAfter(r, MinOf(FenceAt(r)))) =>
                  /\ xc.state = "returned"
                  /\ IsStripOf(xc.code, BlockAfter(r, MinOf(FenceAt(r))))

\* The fence _extract_code() starts from: the first python marker when the
\* response has one, else the first marker, 0 when it has none.
OpeningFence(r) ==
    IF PythonAt(r) # {} THEN MinOf(PythonAt(r))
    ELSE IF FenceAt(r) # {} THEN MinOf(FenceAt(r))
    ELSE 0

\* C25 amended: when the response has a python marker, the result is the
\* stripped text between the first python marker and the next fence, even
\* if a bare fenced block comes before it; else it is the stripped text
\* between the first bare marker and the next fence; when no fence follows
\* the opening marker the call raises; and with no marker the result is the
\* stripped response.
C25_PythonBlockFirst ==
    ExtractEnded =>
        LET r == xc.response
            open == OpeningFence(r)
        IN  /\ open = 0 => (xc.state = "returned" /\ IsStripOf(xc.code, r))
            /\ (open # 0 /\ ~ClosedAfter(r, open)) => xc.state = "raised"
            /\ (open # 0 /\ ClosedAfter(r, open)) =>
                  (xc.state = "returned" /\ IsStripOf(xc.code, BlockAfter(r, open)))

\* C25 witness: a bare block comes before the python block, and the python
\* block is what was returned.
C25_Witness ==
    /\ xc.state = "returned"
    /\ xc.response = << FenceBare, "a", FenceBare, FencePython, "b", FenceBare >>
    /\ xc.code = << "b" >>

(***************************************************************************)
(* Properties of the files of a run and of the order of an iteration       *)
(***************************************************************************)
\* C26: at done the run directory holds planning.json with the ids of the
\* selected examples and the styled description, and iter_n.png and
\* iter_n_details.json (description used, suggestions, revised description)
\* for every iteration n that ran; at every moment every details file has
\* its artifact; and planning.json is there before the first render.
C26_RunDirectoryComplete ==
    /\ Len(iter_details) <= Len(iter_png)
    /\ Len(iter_png) <= Len(iter_details) + 1
    /\ nVisualize >= 1 => planning # << >>
    /\ planning # << >> =>
          /\ Len(calls) >= 3
          /\ planning = << [retrieved_examples |-> ExampleIds,
                            initial_description |-> description] >>
    /\ \A n \in 1 .. Len(iter_details) :
          /\ iter_details[n].iteration = n
          /\ iter_png[n].iteration = n
          /\ iter_details[n].description = iter_png[n].description
    /\ (Len(iter_details) >= 1 /\ Len(iter_details) = nCritique) =>
          /\ iter_details[Len(iter_details)].critic_suggestions = crit.critic_suggestions
          /\ iter_details[Len(iter_details)].revised_description = crit.revised_description
    /\ pc = "done" =>
          /\ planning # << >>
          /\ Len(iter_png) = it
          /\ Len(iter_details) = it

\* C26 witness: a finished run of two iterations with examples selected.
C26_Witness ==
    /\ pc = "done"
    /\ it = 2
    /\ Len(iter_details) = 2
    /\ planning # << >>
    /\ planning[1].retrieved_examples # << >>

\* C27: a call of retrieve() leaves the pool as it was, same elements in the
\* same order, whether it passes the pool through, selects by the model's
\* ranking, falls back after a parse failure, or raises.
C27_PoolNotMutated == [][candidates' = candidates]_vars

\* C27 witness: retrieve() returned the first cap candidates of a larger
\* pool after a response that is no JSON.
C27_Witness ==
    /\ pc = "r_returned"
    /\ retResp.kind = "unparsable"
    /\ num_examples >= 1
    /\ Len(candidates) > num_examples
    /\ examples = Prefix(candidates, num_examples)

\* C28: in every iteration visualize is called before critique and critique
\* before the decision; critique is called with the artifact of the same
\* iteration and with the description that iteration's render was given.
C28_RenderCritiqueDecide ==
    /\ nCritique <= nVisualize
    /\ nVisualize <= nCritique + 1
    /\ \A k \in 4 .. Len(calls) :
          calls[k] = IF k % 2 = 0 THEN "visualize" ELSE "critique"
    /\ pc = "critique" => (nVisualize = it /\ nCritique = it - 1 /\ image_path = it)
    /\ pc \in {"save_details", "decide"} => (nVisualize = it /\ nCritique = it)
    /\ pc = "decide" => Len(iter_details) = it
    /\ crit_call.called <=> nCritique >= 1
    /\ crit_call.called =>
          /\ crit_call.image_path = nCritique
          /\ Len(iter_png) >= nCritique
          /\ iter_png[nCritique].iteration = nCritique
          /\ crit_call.description = iter_png[nCritique].description
          /\ pc \in {"save_details", "decide"} =>
                crit_call.description = current_description

\* C28 witness: the second critique got the second artifact and the revised
\* description it was rendered from.
C28_Witness ==
    /\ pc = "decide"
    /\ it = 2
    /\ crit_call.image_path = 2
    /\ crit_call.description # description
    /\ crit_call.description = iter_details[1].revised_description

\* C29: the description recorded for iteration 1 is initial_description of
\* planning.json, and the description recorded for every later iteration is
\* the revised_description recorded for the iteration before it; the
\* artifacts were rendered from the same descriptions.
C29_DescriptionChain ==
    /\ \A n \in 1 .. Len(iter_details) :
          iter_details[n].description =
              IF n = 1 THEN planning[1].initial_description
              ELSE iter_details[n - 1].revised_description
    /\ \A n \in 1 .. Len(iter_png) :
          iter_png[n].description =
              IF n = 1 THEN planning[1].initial_description
              ELSE iter_details[n - 1].revised_description

\* C29 witness: three iterations, each later one recorded with the revised
\* description of the one before, the second revision differing from the
\* first.
C29_Witness ==
    /\ Len(iter_details) = 3
    /\ iter_details[2].description = iter_details[1].revised_description
    /\ iter_details[3].description = iter_details[2].revised_description
    /\ iter_details[3].description # iter_details[2].description

\* C30: for every iteration cap, zero and negative caps included, the copy
\* to final_output.png is attempted only with a final_image_path that is
\* not None, and so never fails.
C30_CopyOnlyAfterRender ==
    /\ pc = "copy_final" => (final_image_path # 0 /\ nVisualize >= 1)
    /\ failedAt # "copy_final"

(***************************************************************************)
(* Properties of the exits of _extract_code() and of retrieve()'s result   *)
(***************************************************************************)
\* C31: _extract_code() never raises, whatever the response: with an
\* opening fence marker and no closing fence after it, it still returns a
\* code string.
C31_ExtractNeverRaises ==
    ExtractEnded =>
        /\ xc.state = "returned"
        /\ xc.code \in Seq(Pieces)

\* C32: the list retrieve() returns holds no example more than once, for
\* every model response, responses that name one id several times included.
C32_NoDuplicates ==
    pc = "r_returned" =>
        \A j, k \in 1 .. Len(examples) : examples[j] = examples[k] => j = k

(***************************************************************************)
(* Properties of the temporary script of _execute_plot_code()              *)
(***************************************************************************)
\* C33: after _execute_plot_code() has returned, the temporary script it
\* created no longer exists, on each of its exit paths: successful run,
\* non-zero exit, missing output file, timeout. No visualize() call leaves
\* a temporary script behind.
C33_TempFileRemoved ==
    /\ visOut.temp # "exists"
    /\ (visOut.env.code = "code" /\ visOut.result # "none") =>
          /\ visOut.temp = "removed"
          /\ visOut.result \in {"plot", "placeholder"}

\* C33 witness: the child timed out, the placeholder was saved, and the
\* temporary script is gone.
C33_Witness ==
    /\ visOut.env.code = "code"
    /\ visOut.env.run.returncode = "timeout"
    /\ visOut.result = "placeholder"
    /\ visOut.temp = "removed"

(***************************************************************************)
(* Properties of the description inside the refinement loop                *)
(***************************************************************************)
\* C34: inside the refinement loop current_description changes only in the
\* revision check that ends an iteration: the loop head, visualize(),
\* critique() and the writing of iter_n_details.json leave it unchanged;
\* and once planning.json is written, neither it nor the styled description
\* it records is changed again.
C34_OnlyDecideChanges ==
    [][/\ current_description' # current_description =>
              pc \in {"save_planning", "decide"}
       /\ pc \in {"loop", "visualize", "critique", "save_details", "copy_final"} =>
              current_description' = current_description
       /\ planning # << >> =>
              /\ planning' = planning
              /\ description' = description
              /\ planning[1].initial_description = description]_vars

\* C34 witness: the second iteration was rendered, judged and recorded with
\* one description, the revised one adopted by the first revision check,
\* while planning.json still records the styled description.
C34_Witness ==
    /\ pc = "decide"
    /\ it = 2
    /\ current_description # description
    /\ current_description = iter_details[1].revised_description
    /\ iter_png[2].description = current_description
    /\ crit_call.description = current_description
    /\ iter_details[2].description = current_description
    /\ planning[1].initial_description = description

(***************************************************************************)
(* Properties of the number of requests of a run                           *)
(***************************************************************************)
PerIteration(m) == IF m = "diagram" THEN 3 + 8 ELSE 8 + 8

\* C35: whatever the service answers, a run sends at most 8*3 requests in
\* the planning phase plus, for each iteration of the loop (at most as many
\* as the cap allows, none for a cap below 1), 3 + 8 in diagram mode and
\* 8 + 8 in plot mode.
C35_RequestsBounded ==
    /\ nRequests <= 8 * 3 + it * PerIteration(mode)
    /\ it <= Cap0
    /\ nRequests <= 8 * 3 + Cap0 * PerIteration(mode)

\* C35 witness: a plot run of two iterations that ended after every call
\* had succeeded at its last attempt only, and sent as many requests as the
\* bound allows.
C35_Witness ==
    /\ pc = "done"
    /\ mode = "plot"
    /\ iterations = 2
    /\ it = 2
    /\ nRequests = 8 * 3 + 2 * (8 + 8)

(***************************************************************************)
(* Properties of the image references of plan()                            *)
(***************************************************************************)
\* C36: when plan() sends its prompt, as many prompt entries refer to a
\* reference image as images are passed with the prompt, the references
\* are numbered 1, 2, ... in order, and the k-th reference stands in the
\* entry of the example whose image is the k-th one passed; this holds
\* also when an image file that exists fails to load.
C36_NumbersMatchImages ==
    plan_sent.state = "sent" =>
        /\ Len(plan_sent.refs) = Len(plan_sent.images)
        /\ \A k \in 1 .. Len(plan_sent.refs) :
              /\ plan_sent.refs[k].number = k
              /\ k <= Len(plan_sent.images) =>
                    plan_sent.refs[k].example = plan_sent.images[k]

====
